---- MODULE Spec2Model ----
(***************************************************************************)
(* The session supervisor and job-orchestration loop of the MWC CPU miner  *)
(* (src/src/miner/main_cpu_miner.cpp, main), run against the MinerNetwork   *)
(* object it drives: the running flag, the outbound queue, the job slot     *)
(* and the reader and writer threads.  MinerNetwork's own code is not part  *)
(* of the source tree that is modelled here; its operations are modelled    *)
(* from the design specification and are marked as such below.              *)
(*                                                                          *)
(* Time is counted in ticks of 100 ms, the greatest unit that divides every *)
(* duration of main (100 ms, 5 s, 20 s, 30 s).  Time passes only where the  *)
(* code blocks: the two sleep_for calls and the solver call.  clock is the  *)
(* steady_clock reading taken relative to the latest connect attempt (the   *)
(* code only ever uses differences of readings).                            *)
(***************************************************************************)
EXTENDS Integers, Sequences, FiniteSets

\* ---------------------------------------------------------------- bounds
\* Job announcements the node makes in one run.
MaxJobs == 2
\* Requests the writer lets pile up while the connection is up.
MaxQueue == 2
\* Connect attempts that succeed in one run; the later ones fail.
MaxEpochs == 2
\* Ticks explored after one connect attempt, where the pipeline is explored in full.
PipeTime == 6
\* Ticks explored after one connect attempt, where the timers are explored in full.
MaxTime == 410
\* The per-epoch request counts saturate here.
CountCap == 3
\* Ticks explored after one connect attempt, where progress is explored.
LiveTime == 4
\* Key-value pairs on the command lines explored.
MaxPairs == 3

\* ------------------------------------------------------ program constants
\* std::chrono::seconds(30), the backoff after a failed connect, in ticks.
BackoffTicks == 300
\* std::chrono::seconds(20), the keep-alive period, in ticks.
KeepAliveTicks == 200
\* std::chrono::seconds(5), the get-job period, in ticks.
GetJobTicks == 50
\* std::chrono::milliseconds(100), the idle sleep, in ticks.
IdleSleepTicks == 1

\* ------------------------------------------------------------ input sets
\* Durations of one build_graph call, in ticks: 300 ms, and 20.5 s.
SolveShort == {3}
SolveLong == {205}
\* Values uint64_dist(nonce_gen) yields, of the 2^64 there are.
Nonces == {1, 2}
\* Numbers of cycles one build_graph call leaves in res_graphs.
CycleCounts == {0, 1, 2}

\* The environment explored.  Pipeline: every interleaving of the reader, the
\* writer and main over a short time.  Timed: a long time, with a prompt writer
\* and a single job.
PipeEnv == [horizon |-> PipeTime, epochs |-> MaxEpochs, jobs |-> MaxJobs,
            backlog |-> MaxQueue, nonces |-> Nonces, sols |-> CycleCounts,
            durations |-> SolveShort]
TimedEnv == [horizon |-> MaxTime, epochs |-> MaxEpochs, jobs |-> 1,
             backlog |-> 1, nonces |-> {1}, sols |-> {0, 1},
             durations |-> SolveLong]
\* Progress: a short time, a prompt writer, a single job, every interleaving.
LiveEnv == [horizon |-> LiveTime, epochs |-> MaxEpochs, jobs |-> 1,
            backlog |-> 1, nonces |-> {1}, sols |-> {0, 1},
            durations |-> SolveShort]
\* Command lines: every command line, and a single epoch after each accepted one.
ArgsEnv == [LiveEnv EXCEPT !.epochs = 1]

VARIABLES
    exiting,        \* std::atomic<bool> exiting
    pc,             \* the position of main
    clock,          \* steady_clock, in ticks since the latest connect attempt
    running,        \* MinerNetwork: the running flag behind is_running()
    queue,          \* MinerNetwork: the outbound request queue
    jobSlot,        \* MinerNetwork: the active job
    readerThread,   \* "none" | "run" | "done"
    writerThread,   \* "none" | "run" | "done"
    now,                            \* main: auto now
    last_get_job_request_time,      \* main
    last_keep_alive_request_time,   \* main
    currentTask,    \* main: CuckaJob currentTask
    nonce,          \* main: uint64_t nonce
    res_graphs,     \* main: the number of cycles in res_graphs
    announced,      \* history: job announcements delivered so far
    epochs,         \* history: connect attempts that succeeded so far
    sent,           \* history: the first and the latest request the writer of this epoch wrote
    issued,         \* history: when this epoch last enqueued a keep-alive / a get-job, and how many
    sawJob,         \* history: a read of this epoch returned a valid job
    readSeq,        \* history: how many jobs had been announced at the latest read of the slot
    connectFailed,  \* history: the latest connect attempt failed
    env,            \* the environment explored (never changes)
    argv,           \* main: argv[1], argv[2], ..., each a string (a sequence of characters)
    nodeHost,       \* main: std::string nodeHost
    nodePort,       \* main: int nodePort
    loginName,      \* main: std::string loginName
    password,       \* main: std::string password
    algo,           \* main: std::string algo
    edge_bits       \* main: int edge_bits

vars == <<exiting, pc, clock, running, queue, jobSlot, readerThread, writerThread,
          now, last_get_job_request_time, last_keep_alive_request_time,
          currentTask, nonce, res_graphs, announced, epochs, sent, issued, sawJob,
          readSeq, connectFailed, env,
          argv, nodeHost, nodePort, loginName, password, algo, edge_bits>>

netVars == <<running, queue, jobSlot, readerThread, writerThread>>
mainLocals == <<now, last_get_job_request_time, last_keep_alive_request_time,
                currentTask, nonce, res_graphs>>
histVars == <<announced, epochs, sent, issued, sawJob, readSeq, connectFailed, env>>
params == <<argv, nodeHost, nodePort, loginName, password, algo, edge_bits>>

\* ------------------------------------------------------------------ jobs
\* A default-constructed CuckaJob: not valid.
NoJob == [id |-> 0, height |-> 0, valid |-> FALSE]
\* The n-th job the node announces.
Job(n) == [id |-> n, height |-> n, valid |-> TRUE]
is_valid(j) == j.valid

\* -------------------------------------------------------------- requests
NoRequest == [type |-> "none", job |-> 0, nonce |-> 0]
LoginRequest == [type |-> "login", job |-> 0, nonce |-> 0]
KeepAliveRequest == [type |-> "keepalive", job |-> 0, nonce |-> 0]
GetJobRequest == [type |-> "getjob", job |-> 0, nonce |-> 0]
ResponseRequest(job, n) == [type |-> "submit", job |-> job.id, nonce |-> n]

\* Non-blocking push on the outbound queue.
Enqueue(q, r) == Append(q, r)
\* The schedules explored: main finds room in the queue while the connection is
\* up, that is, the writer keeps the backlog below env.backlog.
RoomInQueue == Len(queue) < env.backlog \/ ~running

Bump(n) == IF n < CountCap THEN n + 1 ELSE n
NoneIssued == [ka |-> 0, gj |-> 0, ngj |-> 0, nsub |-> 0, start |-> 0]
NoneSent == [first |-> NoRequest, last |-> NoRequest]

\* ------------------------------------------------- the command line
\* A std::string is the sequence of its characters.
EmptyString == <<>>
OptNode == <<"-", "n", "o", "d", "e">>
OptLogin == <<"-", "l", "o", "g", "i", "n">>
OptPass == <<"-", "p", "a", "s", "s">>
OptAlgo == <<"-", "a", "l", "g", "o">>
AlgoC31 == <<"C", "3", "1">>
AlgoC32 == <<"C", "3", "2">>

\* std::string::find(c): the first position of c, counted from 1; npos if none.
npos == 0
find(str, c) ==
    IF \E k \in 1..Len(str) : str[k] = c
    THEN CHOOSE k \in 1..Len(str) : str[k] = c /\ \A j \in 1..(k - 1) : str[j] # c
    ELSE npos

Digits == {"0", "1", "2", "3", "4", "5", "6", "7", "8", "9"}
DigitValue(c) ==
    CASE c = "0" -> 0 [] c = "1" -> 1 [] c = "2" -> 2 [] c = "3" -> 3 [] c = "4" -> 4
      [] c = "5" -> 5 [] c = "6" -> 6 [] c = "7" -> 7 [] c = "8" -> 8 [] c = "9" -> 9
\* The greatest value of int.
IntMax == 2147483647
\* The number of digits str starts with.
LeadingDigits(str) ==
    IF \E k \in 1..Len(str) : str[k] \notin Digits
    THEN (CHOOSE k \in 1..Len(str) :
            str[k] \notin Digits /\ \A j \in 1..(k - 1) : str[j] \in Digits) - 1
    ELSE Len(str)
RECURSIVE DecimalValue(_)
DecimalValue(ds) ==
    IF ds = <<>> THEN 0
    ELSE 10 * DecimalValue(SubSeq(ds, 1, Len(ds) - 1)) + DigitValue(ds[Len(ds)])
\* std::stoi(str): an optional sign, then the digits str goes on with; what follows
\* them is ignored.  It throws where there is no digit, or the value is no int.
\* (The command lines explored hold no white space, which stoi would skip.)
stoi(str) ==
    LET signed == str # <<>> /\ str[1] \in {"-", "+"}
        body == IF signed THEN Tail(str) ELSE str
        n == LeadingDigits(body)
        magnitude == DecimalValue(SubSeq(body, 1, n))
        value == IF signed /\ str[1] = "-" THEN 0 - magnitude ELSE magnitude
    IN  IF n = 0 \/ value > IntMax \/ value < 0 - IntMax - 1
        THEN [thrown |-> TRUE, value |-> 0]
        ELSE [thrown |-> FALSE, value |-> value]

\* The locals of main as declared, before the loop over the arguments.
Unparsed == [nodeHost |-> EmptyString, nodePort |-> -1, loginName |-> EmptyString,
             password |-> EmptyString, algo |-> EmptyString, exit |-> "no"]

\* for (int i = 2; i < argc; i += 2) { key = argv[i-1]; value = argv[i]; ... }
\* from its iteration i, with the locals st; argc is Len(a) + 1.  exit tells how
\* the loop was left early: "return1" (return 1), "terminate" (the exception of
\* stoi is not caught).
RECURSIVE ParseLoop(_, _, _)
ParseLoop(a, i, st) ==
    IF ~(i < Len(a) + 1) THEN st
    ELSE LET key == a[i - 1]
             value == a[i]
             colonPos == find(value, ":")
             port == stoi(SubSeq(value, colonPos + 1, Len(value)))
         IN  CASE key = OptNode ->
                    IF colonPos = npos THEN [st EXCEPT !.exit = "return1"]
                    ELSE IF port.thrown
                    THEN [st EXCEPT !.nodeHost = SubSeq(value, 1, colonPos - 1),
                                    !.exit = "terminate"]
                    ELSE ParseLoop(a, i + 2,
                            [st EXCEPT !.nodeHost = SubSeq(value, 1, colonPos - 1),
                                       !.nodePort = port.value])
               [] key = OptLogin -> ParseLoop(a, i + 2, [st EXCEPT !.loginName = value])
               [] key = OptPass -> ParseLoop(a, i + 2, [st EXCEPT !.password = value])
               [] key = OptAlgo -> ParseLoop(a, i + 2, [st EXCEPT !.algo = value])
               [] OTHER -> [st EXCEPT !.exit = "return1"]

\* The start of main up to the supervisor loop: the argument count, the loop over
\* the arguments, the checks of the node and of the algorithm.
ParseCommandLine(a) ==
    IF Len(a) + 1 < 7 THEN [Unparsed EXCEPT !.exit = "return1"]
    ELSE LET st == ParseLoop(a, 2, Unparsed)
         IN  IF st.exit # "no" THEN st
             ELSE IF st.nodePort = -1 \/ st.nodeHost = EmptyString
             THEN [st EXCEPT !.exit = "return1"]
             ELSE IF st.algo # AlgoC31 /\ st.algo # AlgoC32
             THEN [st EXCEPT !.exit = "return1"]
             ELSE st

\* The command line of the runs whose command line is not the subject.
DefaultArgs == <<OptNode, <<"h", ":", "1">>, OptLogin, <<"u">>, OptAlgo, AlgoC31>>

StartOfMain(e) ==
    /\ env = e
    /\ exiting = FALSE
    /\ pc = "parse"
    /\ nodeHost = Unparsed.nodeHost
    /\ nodePort = Unparsed.nodePort
    /\ loginName = Unparsed.loginName
    /\ password = Unparsed.password
    /\ algo = Unparsed.algo
    /\ edge_bits = -1
    /\ clock = 0
    /\ running = FALSE
    /\ queue = <<>>
    /\ jobSlot = NoJob
    /\ readerThread = "none"
    /\ writerThread = "none"
    /\ now = 0
    /\ last_get_job_request_time = 0
    /\ last_keep_alive_request_time = 0
    /\ currentTask = NoJob
    /\ nonce = 0
    /\ res_graphs = 0
    /\ announced = 0
    /\ epochs = 0
    /\ sent = NoneSent
    /\ issued = NoneIssued
    /\ sawJob = FALSE
    /\ readSeq = 0
    /\ connectFailed = FALSE

InitIn(e) == StartOfMain(e) /\ argv = DefaultArgs

\* The command lines explored: up to MaxPairs pairs of an option and a value, and
\* possibly one more argument after them.
OptOther == <<"-", "x">>
NodeValues == {<<"h", ":", "1">>, <<"h">>, <<":", "1">>, <<"h", ":", "x">>,
               <<"h", ":", "-", "1">>}
AlgoValues == {AlgoC31, AlgoC32, <<"C", "2", "9">>}
OtherValues == {<<"u">>}
Pairs == ({OptNode} \X NodeValues) \cup ({OptAlgo} \X AlgoValues)
            \cup ({OptLogin, OptPass, OptOther} \X OtherValues)
LastArguments == {<<>>, <<OptOther>>, <<OptNode>>}
RECURSIVE Flatten(_)
Flatten(ps) == IF ps = <<>> THEN <<>> ELSE ps[1] \o Flatten(Tail(ps))
CommandLines ==
    {Flatten(ps) \o t : ps \in UNION {[1..n -> Pairs] : n \in 0..MaxPairs},
                        t \in LastArguments}

InitArgs == StartOfMain(ArgsEnv) /\ argv \in CommandLines

Init == InitIn(PipeEnv)
InitTimed == InitIn(TimedEnv)
InitFair == InitIn(LiveEnv)

\* ------------------------------------------------------------ the signal
\* signal_handler(SIGINT), installed once the command line is accepted.
signal_handler ==
    /\ ~exiting
    /\ pc \notin {"parse", "return1", "terminate", "done"}
    /\ exiting' = TRUE
    /\ UNCHANGED <<pc, clock, netVars, mainLocals, histVars, params>>

\* ------------------------------------------------------------------ main
\* main from its start to the supervisor loop: a command line that is not
\* accepted ends the process (return 1, or std::terminate); otherwise the signal
\* handler is installed and the solver is chosen.
ParseArgs ==
    /\ pc = "parse"
    /\ LET st == ParseCommandLine(argv)
       IN  /\ nodeHost' = st.nodeHost
           /\ nodePort' = st.nodePort
           /\ loginName' = st.loginName
           /\ password' = st.password
           /\ algo' = st.algo
           /\ edge_bits' = IF st.exit # "no" THEN edge_bits
                           ELSE IF st.algo = AlgoC31 THEN 31 ELSE 32
           /\ pc' = IF st.exit # "no" THEN st.exit ELSE "loop"
    /\ UNCHANGED <<exiting, clock, netVars, mainLocals, histVars, argv>>

\* LoopCheck as while (true): exiting is not consulted between epochs.
LoopCheck_ignoresExit ==
    /\ pc = "loop"
    /\ pc' = "connect"
    /\ UNCHANGED <<exiting, clock, netVars, mainLocals, histVars, params>>

\* while(!exiting)
LoopCheck ==
    /\ pc = "loop"
    /\ pc' = IF exiting THEN "done" ELSE "connect"
    /\ UNCHANGED <<exiting, clock, netVars, mainLocals, histVars, params>>

\* if (!network.connect(nodeHost, nodePort)) ...: the attempt succeeds or fails; on
\* success the connection is usable (is_running() holds).  The node accepts
\* env.epochs connections and refuses the later ones.
Connect ==
    /\ pc = "connect"
    /\ \E ok \in BOOLEAN :
        /\ ok => epochs < env.epochs
        /\ running' = ok
        /\ epochs' = IF ok THEN epochs + 1 ELSE epochs
        /\ pc' = IF ok THEN "start" ELSE "backoff"
        /\ connectFailed' = ~ok
    /\ clock' = 0
    /\ UNCHANGED <<exiting, queue, jobSlot, readerThread, writerThread, mainLocals,
                   announced, sent, issued, sawJob, readSeq, env, params>>

\* Backoff, sleeping 3 s instead of 30 s.
Backoff_short ==
    /\ pc = "backoff"
    /\ clock' = clock + 30
    /\ pc' = "loop"
    /\ UNCHANGED <<exiting, netVars, mainLocals, histVars, params>>

\* sleep_for(seconds(30)); continue
Backoff ==
    /\ pc = "backoff"
    /\ clock' = clock + BackoffTicks
    /\ pc' = "loop"
    /\ UNCHANGED <<exiting, netVars, mainLocals, histVars, params>>

\* std::thread readerThread(...), writerThread(...)
StartThreads ==
    /\ pc = "start"
    /\ readerThread' = "run"
    /\ writerThread' = "run"
    /\ sent' = NoneSent
    /\ pc' = "login"
    /\ UNCHANGED <<exiting, clock, running, queue, jobSlot, mainLocals,
                   announced, epochs, issued, sawJob, readSeq, connectFailed, env, params>>

\* Login, with the get-job timer started already expired, so that the first idle
\* iteration requests a job at once.
Login_requestsAtOnce ==
    /\ pc = "login"
    /\ RoomInQueue
    /\ queue' = Enqueue(queue, LoginRequest)
    /\ last_get_job_request_time' = clock - GetJobTicks - 1
    /\ last_keep_alive_request_time' = clock
    /\ issued' = [NoneIssued EXCEPT !.ka = clock, !.gj = clock, !.start = clock]
    /\ sawJob' = FALSE
    /\ pc' = "iter"
    /\ UNCHANGED <<exiting, clock, running, jobSlot, readerThread, writerThread,
                   now, currentTask, nonce, res_graphs, announced, epochs, sent, readSeq,
                   connectFailed, env, params>>

\* network.sendLoginMessage(...); the two timers start at steady_clock::now()
Login ==
    /\ pc = "login"
    /\ RoomInQueue
    /\ queue' = Enqueue(queue, LoginRequest)
    /\ last_get_job_request_time' = clock
    /\ last_keep_alive_request_time' = clock
    /\ issued' = [NoneIssued EXCEPT !.ka = clock, !.gj = clock, !.start = clock]
    /\ sawJob' = FALSE
    /\ pc' = "iter"
    /\ UNCHANGED <<exiting, clock, running, jobSlot, readerThread, writerThread,
                   now, currentTask, nonce, res_graphs, announced, epochs, sent, readSeq,
                   connectFailed, env, params>>

\* IterCheck as while (!exiting): the state of the connection is not consulted.
IterCheck_ignoresRunning ==
    /\ pc = "iter"
    /\ nonce' = 0
    /\ res_graphs' = 0
    /\ IF ~exiting
       THEN /\ pc' = "keepalive"
            /\ UNCHANGED <<now, currentTask>>
       ELSE /\ pc' = "stop"
            /\ now' = 0
            /\ currentTask' = NoJob
    /\ UNCHANGED <<exiting, clock, netVars, last_get_job_request_time,
                   last_keep_alive_request_time, histVars, params>>

\* IterCheck as while (network.is_running()): exiting is not consulted.
IterCheck_ignoresExit ==
    /\ pc = "iter"
    /\ nonce' = 0
    /\ res_graphs' = 0
    /\ IF running
       THEN /\ pc' = "keepalive"
            /\ UNCHANGED <<now, currentTask>>
       ELSE /\ pc' = "stop"
            /\ now' = 0
            /\ currentTask' = NoJob
    /\ UNCHANGED <<exiting, clock, netVars, last_get_job_request_time,
                   last_keep_alive_request_time, histVars, params>>

\* while (network.is_running() && !exiting).  The locals of the loop body end with
\* the iteration before; currentTask's storage keeps its value until the next
\* iteration of the epoch writes it.
IterCheck ==
    /\ pc = "iter"
    /\ nonce' = 0
    /\ res_graphs' = 0
    /\ IF running /\ ~exiting
       THEN /\ pc' = "keepalive"
            /\ UNCHANGED <<now, currentTask>>
       ELSE /\ pc' = "stop"
            /\ now' = 0
            /\ currentTask' = NoJob
    /\ UNCHANGED <<exiting, clock, netVars, last_get_job_request_time,
                   last_keep_alive_request_time, histVars, params>>

\* KeepAlive, without last_keep_alive_request_time = now.
KeepAlive_noReset ==
    /\ pc = "keepalive"
    /\ now' = clock
    /\ IF clock - last_keep_alive_request_time > KeepAliveTicks
       THEN /\ RoomInQueue
            /\ queue' = Enqueue(queue, KeepAliveRequest)
            /\ issued' = [issued EXCEPT !.ka = clock]
       ELSE UNCHANGED <<queue, issued>>
    /\ pc' = "read"
    /\ UNCHANGED <<exiting, clock, running, jobSlot, readerThread, writerThread,
                   last_get_job_request_time, last_keep_alive_request_time,
                   currentTask, nonce, res_graphs,
                   announced, epochs, sent, sawJob, readSeq, connectFailed, env, params>>

\* auto now = ...; if (now - last_keep_alive_request_time > 20 s) { send; last = now }
KeepAlive ==
    /\ pc = "keepalive"
    /\ now' = clock
    /\ IF clock - last_keep_alive_request_time > KeepAliveTicks
       THEN /\ RoomInQueue
            /\ queue' = Enqueue(queue, KeepAliveRequest)
            /\ last_keep_alive_request_time' = clock
            /\ issued' = [issued EXCEPT !.ka = clock]
       ELSE UNCHANGED <<queue, last_keep_alive_request_time, issued>>
    /\ pc' = "read"
    /\ UNCHANGED <<exiting, clock, running, jobSlot, readerThread, writerThread,
                   last_get_job_request_time, currentTask, nonce, res_graphs,
                   announced, epochs, sent, sawJob, readSeq, connectFailed, env, params>>

\* The job slot's read: the held job, not consumed.
getActiveJob == jobSlot

\* ReadJob, copying the slot's job field by field without its lock: the height
\* still is the one currentTask held.
ReadJob_torn ==
    /\ pc = "read"
    /\ currentTask' = [getActiveJob EXCEPT !.height = currentTask.height]
    /\ pc' = IF is_valid(currentTask') THEN "solve" ELSE "idle"
    /\ sawJob' = (sawJob \/ is_valid(currentTask'))
    /\ readSeq' = announced
    /\ UNCHANGED <<exiting, clock, netVars, now, last_get_job_request_time,
                   last_keep_alive_request_time, nonce, res_graphs, announced, epochs,
                   sent, issued, connectFailed, env, params>>

\* ReadJob, with currentTask kept across iterations and read only while not valid.
ReadJob_cached ==
    /\ pc = "read"
    /\ currentTask' = IF is_valid(currentTask) THEN currentTask ELSE getActiveJob
    /\ pc' = IF is_valid(currentTask') THEN "solve" ELSE "idle"
    /\ sawJob' = (sawJob \/ is_valid(currentTask'))
    /\ readSeq' = announced
    /\ UNCHANGED <<exiting, clock, netVars, now, last_get_job_request_time,
                   last_keep_alive_request_time, nonce, res_graphs, announced, epochs,
                   sent, issued, connectFailed, env, params>>

\* CuckaJob currentTask = network.getActiveJob(); if (!currentTask.is_valid())
ReadJob ==
    /\ pc = "read"
    /\ currentTask' = getActiveJob
    /\ pc' = IF is_valid(currentTask') THEN "solve" ELSE "idle"
    /\ sawJob' = (sawJob \/ is_valid(currentTask'))
    /\ readSeq' = announced
    /\ UNCHANGED <<exiting, clock, netVars, now, last_get_job_request_time,
                   last_keep_alive_request_time, nonce, res_graphs, announced, epochs,
                   sent, issued, connectFailed, env, params>>

\* Idle, comparing now with the keep-alive timer instead of the get-job timer.
Idle_wrongTimer ==
    /\ pc = "idle"
    /\ IF now - last_keep_alive_request_time > GetJobTicks
       THEN /\ RoomInQueue
            /\ queue' = Enqueue(queue, GetJobRequest)
            /\ last_get_job_request_time' = now
            /\ issued' = [issued EXCEPT !.gj = clock, !.ngj = Bump(@)]
       ELSE UNCHANGED <<queue, last_get_job_request_time, issued>>
    /\ pc' = "sleep"
    /\ UNCHANGED <<exiting, clock, running, jobSlot, readerThread, writerThread,
                   now, last_keep_alive_request_time, currentTask, nonce, res_graphs,
                   announced, epochs, sent, sawJob, readSeq, connectFailed, env, params>>

\* if (now - last_get_job_request_time > 5 s) { sendGetJobRequest(); last = now }
Idle ==
    /\ pc = "idle"
    /\ IF now - last_get_job_request_time > GetJobTicks
       THEN /\ RoomInQueue
            /\ queue' = Enqueue(queue, GetJobRequest)
            /\ last_get_job_request_time' = now
            /\ issued' = [issued EXCEPT !.gj = clock, !.ngj = Bump(@)]
       ELSE UNCHANGED <<queue, last_get_job_request_time, issued>>
    /\ pc' = "sleep"
    /\ UNCHANGED <<exiting, clock, running, jobSlot, readerThread, writerThread,
                   now, last_keep_alive_request_time, currentTask, nonce, res_graphs,
                   announced, epochs, sent, sawJob, readSeq, connectFailed, env, params>>

\* Time is followed up to env.horizon.  A blocking call that would end past the
\* horizon is explored only where the loop is about to end (running false, or
\* exiting set), and then the clock stays: no timer is read again before the exit.
Returns(d) == clock + d <= env.horizon \/ ~running \/ exiting
After(d) == IF clock + d <= env.horizon THEN clock + d ELSE clock

\* IdleSleep without the continue: the iteration goes on to the solver.
IdleSleep_fallsThrough ==
    /\ pc = "sleep"
    /\ Returns(IdleSleepTicks)
    /\ clock' = After(IdleSleepTicks)
    /\ pc' = "solve"
    /\ UNCHANGED <<exiting, netVars, mainLocals, histVars, params>>

\* sleep_for(milliseconds(100)); continue
IdleSleep ==
    /\ pc = "sleep"
    /\ Returns(IdleSleepTicks)
    /\ clock' = After(IdleSleepTicks)
    /\ pc' = "iter"
    /\ UNCHANGED <<exiting, netVars, mainLocals, histVars, params>>

\* nonce = uint64_dist(nonce_gen); calculate_seed_hash; set_hash; build_graph
Solve ==
    /\ pc = "solve"
    /\ \E n \in env.nonces, d \in env.durations, k \in env.sols :
        /\ Returns(d)
        /\ nonce' = n
        /\ clock' = After(d)
        /\ res_graphs' = k
        /\ pc' = IF k > 0 THEN "submit" ELSE "iter"
    /\ UNCHANGED <<exiting, netVars, now, last_get_job_request_time,
                   last_keep_alive_request_time, currentTask, histVars, params>>

\* Submit, passing the slot's job of the moment instead of currentTask.
Submit_reread ==
    /\ pc = "submit"
    /\ RoomInQueue
    /\ queue' = Enqueue(queue, ResponseRequest(getActiveJob, nonce))
    /\ issued' = [issued EXCEPT !.nsub = Bump(@)]
    /\ pc' = "iter"
    /\ UNCHANGED <<exiting, clock, running, jobSlot, readerThread, writerThread,
                   mainLocals, announced, epochs, sent, sawJob, readSeq, connectFailed, env, params>>

\* if (!res_graphs.empty()) { ...; network.sendResponseRequest(edge_bits, currentTask, nonce, res_nonces); }
Submit ==
    /\ pc = "submit"
    /\ RoomInQueue
    /\ queue' = Enqueue(queue, ResponseRequest(currentTask, nonce))
    /\ issued' = [issued EXCEPT !.nsub = Bump(@)]
    /\ pc' = "iter"
    /\ UNCHANGED <<exiting, clock, running, jobSlot, readerThread, writerThread,
                   mainLocals, announced, epochs, sent, sawJob, readSeq, connectFailed, env, params>>

\* The teardown without the call of stop_running().
StopRunning_noStop ==
    /\ pc = "stop"
    /\ pc' = "join_reader"
    /\ UNCHANGED <<exiting, clock, netVars, mainLocals, histVars, params>>

\* network.stop_running()
StopRunning ==
    /\ pc = "stop"
    /\ running' = FALSE
    /\ pc' = "join_reader"
    /\ UNCHANGED <<exiting, clock, queue, jobSlot, readerThread, writerThread,
                   mainLocals, histVars, params>>

\* JoinReader as readerThread.detach(): main does not wait for the reader.
JoinReader_detach ==
    /\ pc = "join_reader"
    /\ pc' = "join_writer"
    /\ UNCHANGED <<exiting, clock, netVars, mainLocals, histVars, params>>

\* readerThread.join()
JoinReader ==
    /\ pc = "join_reader"
    /\ readerThread = "done"
    /\ readerThread' = "none"
    /\ pc' = "join_writer"
    /\ UNCHANGED <<exiting, clock, running, queue, jobSlot, writerThread,
                   mainLocals, histVars, params>>

\* JoinWriter followed by the backoff sleep of the failed connect.
JoinWriter_thenBackoff ==
    /\ pc = "join_writer"
    /\ writerThread = "done"
    /\ writerThread' = "none"
    /\ last_get_job_request_time' = 0
    /\ last_keep_alive_request_time' = 0
    /\ issued' = NoneIssued
    /\ sawJob' = FALSE
    /\ readSeq' = 0
    /\ pc' = "backoff"
    /\ UNCHANGED <<exiting, clock, running, queue, jobSlot, readerThread,
                   now, currentTask, nonce, res_graphs,
                   announced, epochs, sent, connectFailed, env, params>>

\* writerThread.join(); the body of the outer loop ends, and its two timers with it.
JoinWriter ==
    /\ pc = "join_writer"
    /\ writerThread = "done"
    /\ writerThread' = "none"
    /\ last_get_job_request_time' = 0
    /\ last_keep_alive_request_time' = 0
    /\ issued' = NoneIssued
    /\ sawJob' = FALSE
    /\ readSeq' = 0
    /\ pc' = "loop"
    /\ UNCHANGED <<exiting, clock, running, queue, jobSlot, readerThread,
                   now, currentTask, nonce, res_graphs,
                   announced, epochs, sent, connectFailed, env, params>>

\* ---------------------------------------------------------- reader thread
\* A job announcement is decoded: the slot's job is replaced.
ReaderAnnounce ==
    /\ readerThread = "run"
    /\ running
    /\ announced < env.jobs
    /\ announced' = announced + 1
    /\ jobSlot' = Job(announced + 1)
    /\ UNCHANGED <<exiting, pc, clock, running, queue, readerThread, writerThread,
                   mainLocals, epochs, sent, issued, sawJob, readSeq, connectFailed, env, params>>

\* The transport closes or a message is malformed: running becomes false, the task ends.
ReaderFail ==
    /\ readerThread = "run"
    /\ running
    /\ running' = FALSE
    /\ readerThread' = "done"
    /\ UNCHANGED <<exiting, pc, clock, queue, jobSlot, writerThread, mainLocals, histVars, params>>

\* The read times out and the loop sees running false.
ReaderExit ==
    /\ readerThread = "run"
    /\ ~running
    /\ readerThread' = "done"
    /\ UNCHANGED <<exiting, pc, clock, running, queue, jobSlot, writerThread,
                   mainLocals, histVars, params>>

\* ---------------------------------------------------------- writer thread
\* WriterTake, taking the newest request instead of the oldest.
WriterTake_newest(q) == [req |-> q[Len(q)], rest |-> SubSeq(q, 1, Len(q) - 1)]

\* The request the writer takes from the queue, and what it leaves.
WriterTake(q) == [req |-> Head(q), rest |-> Tail(q)]

\* Pop one request, encode it, write it.
WriterWrite ==
    /\ writerThread = "run"
    /\ running
    /\ queue # <<>>
    /\ queue' = WriterTake(queue).rest
    /\ sent' = [first |-> IF sent.first = NoRequest THEN WriterTake(queue).req ELSE sent.first,
                last |-> WriterTake(queue).req]
    /\ UNCHANGED <<exiting, pc, clock, running, jobSlot, readerThread, writerThread,
                   mainLocals, announced, epochs, issued, sawJob, readSeq, connectFailed, env, params>>

\* A write fails: running becomes false, the task ends.
WriterFail ==
    /\ writerThread = "run"
    /\ running
    /\ queue # <<>>
    /\ queue' = WriterTake(queue).rest
    /\ running' = FALSE
    /\ writerThread' = "done"
    /\ UNCHANGED <<exiting, pc, clock, jobSlot, readerThread, mainLocals, histVars, params>>

\* The wait on the queue is released and the loop sees running false.
WriterExit ==
    /\ writerThread = "run"
    /\ ~running
    /\ writerThread' = "done"
    /\ UNCHANGED <<exiting, pc, clock, running, queue, jobSlot, readerThread,
                   mainLocals, histVars, params>>

\* ------------------------------------------------------------ properties
OrchestratorPcs == {"iter", "keepalive", "read", "idle", "sleep", "solve", "submit"}
\* The job most recently announced, or none.
LatestAnnounced == IF announced = 0 THEN NoJob ELSE Job(announced)
\* The requests a step appends to the queue.
Appended == IF Len(queue') > Len(queue) /\ SubSeq(queue', 1, Len(queue)) = queue
            THEN SubSeq(queue', Len(queue) + 1, Len(queue'))
            ELSE <<>>
AppendedOfType(t) == \E i \in 1..Len(Appended) : Appended[i].type = t
\* Ticks since the orchestrator loop of this epoch started.
Elapsed == clock - issued.start

\* C1: every read of the job slot by the orchestrator returns the most recently
\* announced job, whole: never an older job, never a mix of two jobs' fields.
C1_ReadReturnsLatest ==
    [][(pc = "read" /\ pc' # "read") => currentTask' = LatestAnnounced']_vars
\* A read returned the second job after the first had been announced.
C1_Witness == pc = "solve" /\ announced = 2 /\ currentTask = Job(2) /\ readSeq = 2

\* C2: the writer emits the requests in the order they were enqueued: the queue only
\* grows at its tail, and only loses its oldest request, which is the one written
\* (or the one whose write failed, which ends the epoch).
C2_FifoOrder ==
    [][queue' # queue =>
        \/ /\ Len(queue') = Len(queue) + 1
           /\ SubSeq(queue', 1, Len(queue)) = queue
        \/ /\ queue # <<>>
           /\ queue' = Tail(queue)
           /\ \/ sent'.last = Head(queue) /\ running'
              \/ ~running' /\ sent' = sent]_vars
\* The writer has written two different requests and more are waiting.
C2_Witness ==
    /\ sent.first.type = "login"
    /\ sent.last.type = "submit"
    /\ Len(queue) >= 2
    /\ queue[1] # queue[2]

\* C3: the first request the writer of an epoch sends is the login.
C3_LoginFirstOnWire == sent.first.type \in {"none", "login"}

\* C4: a keep-alive is enqueued only when at least 20 s have passed since the
\* previous keep-alive of the epoch or, for the first, since the epoch started.
C4_KeepAliveInterval ==
    [][AppendedOfType("keepalive") =>
        /\ Len(Appended) = 1
        /\ clock - issued.ka >= KeepAliveTicks
        /\ issued'.ka = clock]_vars
\* A second keep-alive of an epoch has been enqueued.
C4_Witness ==
    /\ pc = "read"
    /\ issued.ka = clock
    /\ Elapsed > 2 * KeepAliveTicks
    /\ last_keep_alive_request_time = clock

\* C5: a get-job request is enqueued only in an iteration whose read returned no
\* valid job, and only when at least 5 s have passed since the previous get-job
\* request of the epoch or, for the first, since the epoch started.
C5_GetJobInterval ==
    [][AppendedOfType("getjob") =>
        /\ Len(Appended) = 1
        /\ ~is_valid(currentTask)
        /\ clock - issued.gj >= GetJobTicks
        /\ issued'.gj = clock]_vars
\* A second get-job request of an epoch has been enqueued.
C5_Witness == pc = "sleep" /\ issued.ngj = 2 /\ issued.gj = clock

\* C6, as stated: after 10 s of idle looping two get-job requests have been enqueued.
C6_TwoGetJobsInTenSeconds ==
    (pc = "iter" /\ ~sawJob /\ Elapsed = 2 * GetJobTicks)
        => (issued.ngj = 2 /\ issued.nsub = 0)
\* C6, amended: during the first 10 s of idle looping of an epoch exactly one
\* get-job request is enqueued, by the iteration that starts 5.1 s after the epoch
\* started and none before, and no submission.
C6_OneGetJobInTenSeconds ==
    (pc \in OrchestratorPcs /\ ~sawJob /\ Elapsed <= 2 * GetJobTicks) =>
        /\ issued.nsub = 0
        /\ issued.ngj =
            IF Elapsed > GetJobTicks + 1 \/ (Elapsed = GetJobTicks + 1 /\ pc = "sleep")
            THEN 1 ELSE 0
        /\ issued.ngj = 1 => issued.gj = issued.start + GetJobTicks + 1
\* Ten seconds of idle looping have passed.
C6_Witness == pc = "iter" /\ ~sawJob /\ Elapsed = 2 * GetJobTicks /\ issued.ngj = 1

\* C7: the connect attempt after a failed one comes no sooner than 30 s later, and
\* main leaves its loop only when exiting is set.
C7_BackoffAndRetry ==
    /\ (pc \in {"loop", "connect"} /\ connectFailed) => clock >= BackoffTicks
    /\ pc = "backoff" => connectFailed
    /\ pc = "done" => exiting
\* A connect attempt is about to be made after a failed one.
C7_Witness == pc = "connect" /\ connectFailed /\ ~exiting

\* C8: the submission of an attempt references the job read from the slot at the
\* start of the attempt and the attempt's nonce, whatever the reader did to the
\* slot meanwhile; with one candidate exactly one submission is enqueued.
C8_SubmissionOfAttempt ==
    [][(pc = "submit" /\ pc' # "submit") =>
        /\ Len(Appended) >= 1
        /\ \A i \in 1..Len(Appended) :
             Appended[i] = [type |-> "submit", job |-> readSeq, nonce |-> nonce]
        /\ nonce \in env.nonces
        /\ res_graphs = 1 => Len(Appended) = 1]_vars
\* A submission was enqueued for a job the reader replaced during the attempt.
C8_Witness ==
    /\ pc = "iter"
    /\ queue # <<>>
    /\ queue[Len(queue)].type = "submit"
    /\ queue[Len(queue)].job = 1
    /\ res_graphs = 1
    /\ jobSlot = Job(2)
    /\ currentTask = Job(1)

\* C9: an attempt that returns k candidates enqueues k submit requests.
C9_OneRequestPerCandidate ==
    [][(pc \in {"solve", "submit"} /\ pc' = "iter") =>
        Len(queue') = Len(queue) + res_graphs']_vars

\* C10, as stated: the job a submit request references is, when it is enqueued, the
\* most recently announced job held in the slot.
C10_NoStaleSubmission ==
    [][AppendedOfType("submit") =>
        \A i \in 1..Len(Appended) : Appended[i].job = jobSlot.id]_vars
\* C10, amended: the job a submit request references was the most recently
\* announced job when the attempt read the slot; it is a job that was announced,
\* and the slot holds that job or one announced later.
C10_JobCurrentWhenRead ==
    [][AppendedOfType("submit") =>
        \A i \in 1..Len(Appended) :
            /\ Appended[i].job = readSeq
            /\ readSeq \in 1..announced
            /\ jobSlot = Job(announced)]_vars
\* A submission has been enqueued for a job that was superseded during the attempt.
C10_Witness ==
    /\ pc = "iter"
    /\ res_graphs > 0
    /\ readSeq = 1
    /\ announced = 2
    /\ queue # <<>>
    /\ queue[Len(queue)] = ResponseRequest(Job(1), nonce)

\* The positions of main inside a connected epoch, before its teardown.
EpochPcs == {"login"} \cup OrchestratorPcs

\* C11: when a read or a write of the transport fails during an epoch while exiting
\* is not set, running is false from then on in the epoch, the next check of the
\* loop condition leaves the orchestrator loop, the epoch is torn down (reader
\* and writer joined), and main eventually makes a new connect attempt, unless
\* exiting is set meanwhile.
C11_ReconnectAfterFailure ==
    /\ [][(pc \in EpochPcs /\ ~running) => ~running']_vars
    /\ [][(pc = "iter" /\ ~running /\ pc' # pc) => pc' = "stop"]_vars
    /\ (pc \in EpochPcs /\ ~running /\ ~exiting)
         ~> (exiting \/ (pc = "connect" /\ readerThread = "none" /\ writerThread = "none"))
\* Main is about to connect again after an epoch that a failure ended.
C11_Witness ==
    /\ pc = "connect"
    /\ epochs = 1
    /\ ~connectFailed
    /\ ~exiting
    /\ ~running

\* The way out of an epoch: where main goes from each position of the teardown
\* once exiting is set.
OnExit == [p \in {"stop", "join_reader", "join_writer", "loop"} |->
              CASE p = "stop" -> "join_reader"
                [] p = "join_reader" -> "join_writer"
                [] p = "join_writer" -> "loop"
                [] p = "loop" -> "done"]

\* C12: exiting, once set, is never cleared; when the orchestrator loop has ended
\* with exiting set, main stops the session, joins the reader and the writer and
\* leaves its loop, with no connect attempt and no backoff on the way; main is
\* done only with exiting set and both threads joined.
C12_StopWithoutReconnect ==
    [][/\ exiting => exiting'
       /\ (exiting /\ pc \in DOMAIN OnExit /\ pc' # pc) => pc' = OnExit[pc]
       /\ (pc = "stop" /\ pc' # pc) => ~running'
       /\ pc' = "done" =>
            (exiting' /\ ~running' /\ readerThread' = "none" /\ writerThread' = "none")
      ]_vars
\* The orchestrator loop has ended over exiting, with the connection still up.
C12_Witness == pc = "stop" /\ running /\ exiting /\ readerThread = "run"

\* C13: once exiting is set, main terminates, wherever it is (backing off, polling
\* idle, solving, tearing an epoch down), given that the solver returns and the
\* blocked reader and writer are released.
C13_TerminatesAfterExit == exiting ~> (pc = "done")
\* Main has terminated after an epoch in which a job was worked on.
C13_Witness == pc = "done" /\ exiting /\ epochs >= 1 /\ announced >= 1

\* The positions of main outside every epoch.
NoThreadPcs == {"parse", "return1", "terminate", "loop", "connect", "backoff", "start", "done"}

\* The options of the usage line.
KnownOptions == {OptNode, OptLogin, OptPass, OptAlgo}
\* The positions of a command line where an option key stands.
KeyPositions(a) == {k \in 1..Len(a) : k % 2 = 1}
\* The value the last option key of a command line gives, or the empty string.
ValueOf(a, key) ==
    LET at == {k \in KeyPositions(a) : a[k] = key /\ k < Len(a)}
    IN  IF at = {} THEN EmptyString
        ELSE a[(CHOOSE k \in at : \A j \in at : j <= k) + 1]
\* Malformed startup parameters, as the design names them.
Malformed(a) ==
    \/ Len(a) < 6
    \/ \E k \in KeyPositions(a) : a[k] = OptNode /\ k < Len(a) /\ find(a[k + 1], ":") = npos
    \/ \E k \in KeyPositions(a) : a[k] \notin KnownOptions
    \/ ~(\E k \in KeyPositions(a) : a[k] = OptNode /\ k < Len(a))
    \/ ValueOf(a, OptAlgo) \notin {AlgoC31, AlgoC32}

\* C14: with malformed startup parameters main ends before its supervisor loop:
\* no connect attempt, no reader or writer thread, no request enqueued.
C14_MalformedNeverConnects ==
    Malformed(argv) =>
        /\ pc \in {"parse", "return1", "terminate"}
        /\ epochs = 0
        /\ queue = <<>>
        /\ readerThread = "none"
        /\ writerThread = "none"

\* C15: the reader and the writer live inside one epoch: they are created only at
\* the start of an epoch, after a connect that succeeded and with no thread of an
\* earlier epoch left, and none exists while main checks its loop, connects, backs
\* off or is done.
C15_ThreadsWithinEpoch ==
    [][/\ pc' \in NoThreadPcs => (readerThread' = "none" /\ writerThread' = "none")
       /\ ((readerThread = "none" /\ readerThread' # "none")
            \/ (writerThread = "none" /\ writerThread' # "none")) =>
            /\ pc = "start"
            /\ running
            /\ ~connectFailed
            /\ readerThread = "none"
            /\ writerThread = "none"
      ]_vars
\* The threads of a second epoch are about to be created.
C15_Witness ==
    /\ pc = "start"
    /\ epochs = 2
    /\ readerThread = "none"
    /\ writerThread = "none"

\* C16: the teardown of an epoch does not hang: once the orchestrator loop is left,
\* stop_running is called, the reader and the writer terminate, both joins return
\* and main is at the check of its loop again.
C16_TeardownCompletes ==
    (pc = "stop") ~> (pc = "loop" /\ readerThread = "none" /\ writerThread = "none")
\* An epoch has been torn down with nothing left to write.
C16_Witness ==
    /\ pc = "loop"
    /\ epochs >= 1
    /\ ~running
    /\ queue = <<>>
    /\ readerThread = "none"
    /\ writerThread = "none"

\* C17: an iteration takes one branch, decided by its one read of the slot: it is
\* idle (get-job, sleep) only with a currentTask that is not valid, it solves and
\* submits only with a valid one, currentTask does not change between the read and
\* the end of the iteration, and an epoch that has seen no job submits nothing.
C17_OneBranchPerIteration ==
    [][/\ pc' \in {"idle", "sleep"} => ~is_valid(currentTask')
       /\ pc' \in {"solve", "submit"} => (is_valid(currentTask') /\ sawJob')
       /\ pc \in {"idle", "sleep", "solve", "submit"} => currentTask' = currentTask
       /\ AppendedOfType("getjob") => (pc = "idle" /\ ~is_valid(currentTask))
       /\ AppendedOfType("submit") => (pc = "submit" /\ is_valid(currentTask) /\ sawJob)
       /\ ~sawJob' => issued'.nsub = 0
      ]_vars
\* An epoch has asked for a job while idle and has submitted a solution later.
C17_Witness == pc = "iter" /\ issued.ngj >= 1 /\ issued.nsub >= 1 /\ sawJob

\* C18: main sleeps the backoff only after a connect attempt that failed: the
\* backoff is entered from a failed connect only, and from the end of an epoch to
\* the next connect attempt no time passes.
C18_BackoffOnlyAfterFailedConnect ==
    [][/\ pc' = "backoff" => (pc \in {"connect", "backoff"} /\ connectFailed')
       /\ (pc \in {"stop", "join_reader", "join_writer"} \/ (pc = "loop" /\ ~connectFailed)) =>
            (clock' = clock /\ pc' # "backoff")
      ]_vars
\* Main is about to connect again at the very time an epoch ended.
C18_Witness ==
    /\ pc = "connect"
    /\ epochs >= 1
    /\ ~connectFailed
    /\ ~exiting
    /\ clock > 0
    /\ clock < BackoffTicks

Next ==
    \/ ParseArgs
    \/ signal_handler
    \/ LoopCheck
    \/ Connect
    \/ Backoff
    \/ StartThreads
    \/ Login
    \/ IterCheck
    \/ KeepAlive
    \/ ReadJob
    \/ Idle
    \/ IdleSleep
    \/ Solve
    \/ Submit
    \/ StopRunning
    \/ JoinReader
    \/ JoinWriter
    \/ ReaderAnnounce
    \/ ReaderFail
    \/ ReaderExit
    \/ WriterWrite
    \/ WriterFail
    \/ WriterExit

\* The steps of the main thread.
MainStep ==
    \/ ParseArgs
    \/ LoopCheck
    \/ Connect
    \/ Backoff
    \/ StartThreads
    \/ Login
    \/ IterCheck
    \/ KeepAlive
    \/ ReadJob
    \/ Idle
    \/ IdleSleep
    \/ Solve
    \/ Submit
    \/ StopRunning
    \/ JoinReader
    \/ JoinWriter

\* The scheduler runs every thread that can take a step: main; the reader, whose
\* blocking read times out, once running is false; the writer, whose wait on the
\* queue is released, once running is false or a request is waiting.  Nothing
\* is assumed of the signal, of the node's announcements or of failures.
Fairness ==
    /\ WF_vars(MainStep)
    /\ WF_vars(ReaderExit)
    /\ WF_vars(WriterExit)
    /\ WF_vars(WriterWrite)

Spec == Init /\ [][Next]_vars
SpecTimed == InitTimed /\ [][Next]_vars
SpecFair == InitFair /\ [][Next]_vars /\ Fairness
SpecArgs == InitArgs /\ [][Next]_vars

====
